---------------------------- MODULE Spec2Model ----------------------------
(***************************************************************************)
(* A model of python/generate_sql.py: the SQLGenerator that compiles a     *)
(* react-awesome-query-builder JSON tree into a SQL WHERE predicate, and   *)
(* the command-line main() around it.                                      *)
(*                                                                         *)
(* Python text is modelled as a sequence of one-character strings, so     *)
(* that quoting, escaping and slicing are computed character by           *)
(* character, as the code computes them.  A call's outcome is a record:   *)
(* either the returned text or the exception that was raised.             *)
(***************************************************************************)
EXTENDS Integers, Sequences, FiniteSets, TLC

VARIABLES
    call,          \* the request under observation: the method and its arguments
    pc,            \* "idle" until that request has been served, then "done"
    use_params,    \* SQLGenerator.use_params
    params,        \* SQLGenerator.params
    param_index,   \* SQLGenerator.param_index
    ret,           \* the outcome of the last method call that returns SQL text
    ncalls,        \* history: generate_sql calls completed on this instance
    entry_index,   \* history: param_index on entry to the last generate_sql call
    stdout,        \* lines main() printed to standard output
    stderr,        \* lines main() printed to standard error
    exit_status    \* main()'s exit status (0 on a normal return)

vars == <<call, pc, use_params, params, param_index, ret, ncalls, entry_index,
          stdout, stderr, exit_status>>

-----------------------------------------------------------------------------
(* Bounds of the model. *)

\* longest string value
MaxLen == 2
\* longest value list
MaxList == 2
\* most children of a flat group
MaxChildren == 2
\* deepest nesting of groups
MaxDepth == 2
\* most add_param calls between two generate_sql calls
MaxParams == 2
\* most generate_sql calls that precede the observed one
MaxCalls == 1

-----------------------------------------------------------------------------
(* Python text. *)

Quote == "'"

RECURSIVE Join(_, _)
\* sep.join(parts)
Join(sep, parts) ==
    IF Len(parts) = 0 THEN << >>
    ELSE IF Len(parts) = 1 THEN Head(parts)
    ELSE Head(parts) \o sep \o Join(sep, Tail(parts))

\* s[1:-1]
Slice1(s) ==
    IF Len(s) < 2 THEN << >> ELSE SubSeq(s, 2, Len(s) - 1)

DigitChar == <<"0", "1", "2", "3", "4", "5", "6", "7", "8", "9">>

RECURSIVE Digits(_)
Digits(n) ==
    IF n < 10 THEN <<DigitChar[n + 1]>>
    ELSE Digits(n \div 10) \o <<DigitChar[(n % 10) + 1]>>

\* str(n) of a Python int
IntStr(n) ==
    IF n < 0 THEN <<"-">> \o Digits(0 - n) ELSE Digits(n)

-----------------------------------------------------------------------------
(* JSON values (JSONValue) and the valueType argument. *)

StrV(s)     == [kind |-> "str",    s |-> s,     n |-> 0, b |-> FALSE, items |-> << >>]
NumV(n)     == [kind |-> "num",    s |-> << >>, n |-> n, b |-> FALSE, items |-> << >>]
BoolV(b)    == [kind |-> "bool",   s |-> << >>, n |-> 0, b |-> b,     items |-> << >>]
NullV       == [kind |-> "null",   s |-> << >>, n |-> 0, b |-> FALSE, items |-> << >>]
\* a JSON object, given by its str() text and its truth value
ObjV(s, b)  == [kind |-> "object", s |-> s,     n |-> 0, b |-> b,     items |-> << >>]
ListV(xs)   == [kind |-> "list",   s |-> << >>, n |-> 0, b |-> FALSE, items |-> xs]

NoType        == [kind |-> "none", tag |-> "",  items |-> << >>]
TypeTag(t)    == [kind |-> "str",  tag |-> t,   items |-> << >>]
TypeList(ts)  == [kind |-> "list", tag |-> "",  items |-> ts]

\* str(value)
PyStr(v) ==
    CASE v.kind = "str"    -> v.s
      [] v.kind = "num"    -> IntStr(v.n)
      [] v.kind = "bool"   -> IF v.b THEN <<"T", "r", "u", "e">> ELSE <<"F", "a", "l", "s", "e">>
      [] v.kind = "object" -> v.s
      [] OTHER             -> <<"N", "o", "n", "e">>

\* the truth value of `value` in a conditional expression
Truthy(v) ==
    CASE v.kind = "str"    -> Len(v.s) > 0
      [] v.kind = "num"    -> v.n # 0
      [] v.kind = "bool"   -> v.b
      [] v.kind = "object" -> v.b
      [] v.kind = "list"   -> Len(v.items) > 0
      [] OTHER             -> FALSE

\* isinstance(value, str), isinstance(value, (int, float)), isinstance(value, bool):
\* bool is a subclass of int
IsStr(v)    == v.kind = "str"
IsNumber(v) == v.kind \in {"num", "bool"}
IsBool(v)   == v.kind = "bool"

(* The outcome of a call. *)
Ok(t)    == [ok |-> TRUE,  text |-> t,     exc |-> "none"]
Raise(e) == [ok |-> FALSE, text |-> << >>, exc |-> e]
NoRet    == [ok |-> FALSE, text |-> << >>, exc |-> "no call"]

-----------------------------------------------------------------------------
(* SQLGenerator.format_value *)

EscapeQuotesDropped(s) == s

RECURSIVE EscapeQuotes(_)
\* s.replace("'", "''")
EscapeQuotes(s) ==
    IF Len(s) = 0 THEN << >>
    ELSE (IF Head(s) = Quote THEN <<Quote, Quote>> ELSE <<Head(s)>>)
         \o EscapeQuotes(Tail(s))

\* f"'{escaped_value}'"
Quoted(s) == <<Quote>> \o s \o <<Quote>>

\* value_type[0] if isinstance(value_type, list) else value_type
\* (an empty list raises IndexError)
FirstTypeRaises(value_type) ==
    value_type.kind = "list" /\ Len(value_type.items) = 0

FirstType(value_type) ==
    IF value_type.kind = "list" THEN TypeTag(value_type.items[1]) ELSE value_type

\* effective_type: a one-element list is unwrapped
EffectiveType(value_type) ==
    IF value_type.kind = "list" /\ Len(value_type.items) = 1
    THEN TypeTag(value_type.items[1])
    ELSE value_type

IsTag(effective_type, t) ==
    effective_type.kind = "str" /\ effective_type.tag = t

\* the scalar branches of format_value
FormatScalar(value, value_type) ==
    LET effective_type == EffectiveType(value_type) IN
    IF IsTag(effective_type, "string") \/ IsStr(value)
    THEN Quoted(EscapeQuotes(PyStr(value)))
    ELSE IF IsTag(effective_type, "number") \/ IsNumber(value)
    THEN PyStr(value)
    ELSE IF IsTag(effective_type, "boolean") \/ IsBool(value)
    THEN (IF Truthy(value) THEN <<"T", "R", "U", "E">> ELSE <<"F", "A", "L", "S", "E">>)
    ELSE IF IsTag(effective_type, "date") \/ IsTag(effective_type, "datetime")
    THEN <<"D", "A", "T", "E", " ", "'">> \o PyStr(value) \o <<Quote>>
    ELSE IF IsTag(effective_type, "time")
    THEN Quoted(PyStr(value))
    ELSE Quoted(EscapeQuotes(PyStr(value)))

\* the first failed outcome of a sequence of outcomes, if any
FirstFailure(rs) ==
    LET bad == {i \in 1..Len(rs) : ~rs[i].ok} IN
    rs[CHOOSE i \in bad : \A j \in bad : i <= j]

AllOk(rs) == \A i \in 1..Len(rs) : rs[i].ok

RECURSIVE format_value(_, _)
format_value(value, value_type) ==
    IF value.kind = "null" THEN Ok(<<"N", "U", "L", "L">>)
    ELSE IF value.kind = "list" THEN
        IF Len(value.items) = 1
        THEN IF FirstTypeRaises(value_type) THEN Raise("IndexError")
             ELSE format_value(value.items[1], FirstType(value_type))
        ELSE LET rs == [i \in 1..Len(value.items) |->
                           format_value(value.items[i], NoType)]
             IN  IF AllOk(rs)
                 THEN Ok(<<"(">> \o Join(<<",", " ">>, [i \in 1..Len(rs) |-> rs[i].text])
                         \o <<")">>)
                 ELSE FirstFailure(rs)
    ELSE Ok(FormatScalar(value, value_type))

-----------------------------------------------------------------------------
(* Query-tree nodes.  A node is a JSON object; `keys` and `pkeys` are the  *)
(* keys present in the node and in its "properties" object.                *)

Node(type, keys, pkeys, field, operator, value, valueType, conjunction, negate, children1) ==
    [type |-> type, keys |-> keys, pkeys |-> pkeys, field |-> field,
     operator |-> operator, value |-> value, valueType |-> valueType,
     conjunction |-> conjunction, not |-> negate, children1 |-> children1]

\* {"type": "rule", "properties": {field, operator, value, valueType}} with
\* the property keys `pkeys` present
RuleNode(pkeys, field, operator, value, valueType) ==
    Node("rule", {"type", "properties"}, pkeys, field, operator, value,
         valueType, << >>, FALSE, << >>)

\* {"type": "group", "properties": {conjunction, not}, "children1": [...]} with
\* the keys `keys` and the property keys `pkeys` present
GroupNode(keys, pkeys, conjunction, negate, children1) ==
    Node("group", keys \cup {"type"}, pkeys, << >>, "", NullV, NoType,
         conjunction, negate, children1)

\* a node of another type, and a node with no "type" key
OtherNode(type) ==
    Node(type, {"type"}, {}, << >>, "", NullV, NoType, << >>, FALSE, << >>)
UntypedNode ==
    Node("", {}, {}, << >>, "", NullV, NoType, << >>, FALSE, << >>)

-----------------------------------------------------------------------------
(* SQLGenerator.OPERATOR_MAPPING *)

OPERATOR_MAPPING ==
    ("equal" :> <<"=">>) @@ ("not_equal" :> <<"!", "=">>) @@ ("less" :> <<"<">>) @@
    ("less_or_equal" :> <<"<", "=">>) @@ ("greater" :> <<">">>) @@
    ("greater_or_equal" :> <<">", "=">>) @@ ("like" :> <<"L", "I", "K", "E">>) @@
    ("not_like" :> <<"N", "O", "T", " ", "L", "I", "K", "E">>) @@ ("starts_with" :> <<"L", "I", "K", "E">>) @@
    ("ends_with" :> <<"L", "I", "K", "E">>) @@ ("between" :> <<"B", "E", "T", "W", "E", "E", "N">>) @@
    ("not_between" :> <<"N", "O", "T", " ", "B", "E", "T", "W", "E", "E", "N">>) @@ ("is_null" :> <<"I", "S", " ", "N", "U", "L", "L">>) @@
    ("is_not_null" :> <<"I", "S", " ", "N", "O", "T", " ", "N", "U", "L", "L">>) @@ ("is_empty" :> <<"=", " ", "'", "'">>) @@
    ("is_not_empty" :> <<"!", "=", " ", "'", "'">>) @@ ("in" :> <<"I", "N">>) @@
    ("not_in" :> <<"N", "O", "T", " ", "I", "N">>) @@ ("AND" :> <<"A", "N", "D">>) @@ ("OR" :> <<"O", "R">>)

-----------------------------------------------------------------------------
(* SQLGenerator.process_rule *)

\* value[0] if isinstance(value, list) else value (an empty list raises
\* IndexError)
FirstValueRaises(value) == value.kind = "list" /\ Len(value.items) = 0

FirstValue(value) ==
    IF value.kind = "list" THEN value.items[1] ELSE value

\* self.format_value(value[0] if isinstance(value, list) else value,
\*                   value_type[0] if isinstance(value_type, list) else value_type)
FormatFirst(value, value_type) ==
    IF FirstValueRaises(value) \/ FirstTypeRaises(value_type)
    THEN Raise("IndexError")
    ELSE format_value(FirstValue(value), FirstType(value_type))

\* the BETWEEN branch: value[0] and value[1], each with the first declared type
Between(field, operator, value, value_type) ==
    IF FirstTypeRaises(value_type) THEN Raise("IndexError")
    ELSE LET low_val  == format_value(value.items[1], FirstType(value_type))
             high_val == format_value(value.items[2], FirstType(value_type))
         IN  IF ~low_val.ok THEN low_val
             ELSE IF ~high_val.ok THEN high_val
             ELSE Ok(field \o <<" ">> \o OPERATOR_MAPPING[operator] \o <<" ">>
                     \o low_val.text \o <<" ", "A", "N", "D", " ">> \o high_val.text)

\* the starts_with and ends_with branches
StartsWith(field, value, value_type) ==
    LET formatted_value == FormatFirst(value, value_type) IN
    IF ~formatted_value.ok THEN formatted_value
    ELSE LET inner_value == Slice1(formatted_value.text) \o <<"%">>
         IN  Ok(field \o <<" ", "L", "I", "K", "E", " ", "'">> \o inner_value \o <<Quote>>)

EndsWith(field, value, value_type) ==
    LET formatted_value == FormatFirst(value, value_type) IN
    IF ~formatted_value.ok THEN formatted_value
    ELSE LET inner_value == <<"%">> \o Slice1(formatted_value.text)
         IN  Ok(field \o <<" ", "L", "I", "K", "E", " ", "'">> \o inner_value \o <<Quote>>)

\* the regular binary operators: the value is formatted first, then the
\* operator is looked up (an unknown operator raises KeyError)
Binary(field, operator, value, value_type) ==
    LET formatted_value == FormatFirst(value, value_type) IN
    IF ~formatted_value.ok THEN formatted_value
    ELSE IF operator \notin DOMAIN OPERATOR_MAPPING THEN Raise("KeyError")
    ELSE Ok(field \o <<" ">> \o OPERATOR_MAPPING[operator] \o <<" ">>
            \o formatted_value.text)

process_rule(rule) ==
    IF "properties" \notin rule.keys THEN Raise("KeyError")
    ELSE IF "operator" \notin rule.pkeys THEN Raise("KeyError")
    ELSE IF "field" \notin rule.pkeys THEN Raise("KeyError")
    ELSE
    LET operator == rule.operator
        field    == rule.field
    IN
    IF operator \in {"is_null", "is_not_null"}
    THEN Ok(field \o <<" ">> \o OPERATOR_MAPPING[operator])
    ELSE IF operator \in {"is_empty", "is_not_empty"}
    THEN Ok(field \o <<" ">> \o OPERATOR_MAPPING[operator])
    ELSE IF "value" \notin rule.pkeys THEN Raise("KeyError")
    ELSE
    LET value      == rule.value
        value_type == IF "valueType" \in rule.pkeys THEN rule.valueType
                      ELSE NoType
    IN
    IF operator \in {"between", "not_between"} /\ value.kind = "list"
       /\ Len(value.items) >= 2
    THEN Between(field, operator, value, value_type)
    ELSE IF operator \in {"in", "not_in"}
    THEN LET formatted_values == format_value(value, value_type) IN
         IF ~formatted_values.ok THEN formatted_values
         ELSE Ok(field \o <<" ">> \o OPERATOR_MAPPING[operator] \o <<" ">>
                 \o formatted_values.text)
    ELSE IF operator = "starts_with" THEN StartsWith(field, value, value_type)
    ELSE IF operator = "ends_with" THEN EndsWith(field, value, value_type)
    ELSE Binary(field, operator, value, value_type)

-----------------------------------------------------------------------------
(* SQLGenerator.process_group *)

\* the loop's accumulator: the conditions compiled so far, or the exception
\* that left the loop
NoConditions == [ok |-> TRUE, conds |-> << >>, exc |-> "none"]

AddConditionSwallowing(acc, r) ==
    IF r.ok THEN [acc EXCEPT !.conds = Append(@, r.text)] ELSE acc

\* conditions.append(<outcome r of compiling the child>): an exception raised
\* while compiling the child leaves process_group
AddCondition(acc, r) ==
    IF r.ok THEN [acc EXCEPT !.conds = Append(@, r.text)]
    ELSE [ok |-> FALSE, conds |-> acc.conds, exc |-> r.exc]

IsEmptyNever(children) == FALSE

\* not children
IsEmpty(children) == Len(children) = 0

ParenthesizeFromOne(joined_conditions, n) ==
    IF n >= 1 THEN <<"(">> \o joined_conditions \o <<")">> ELSE joined_conditions

\* if len(conditions) > 1: joined_conditions = f"({joined_conditions})"
Parenthesize(joined_conditions, n) ==
    IF n > 1 THEN <<"(">> \o joined_conditions \o <<")">> ELSE joined_conditions

\* if negate: joined_conditions = f"NOT {joined_conditions}"
Negate(joined_conditions, negate) ==
    IF negate THEN <<"N", "O", "T", " ">> \o joined_conditions ELSE joined_conditions

\* f" {conjunction} ".join(conditions), then the parentheses and the negation
GroupText(conditions, conjunction, negate) ==
    Negate(Parenthesize(Join(<<" ">> \o conjunction \o <<" ">>, conditions),
                        Len(conditions)),
           negate)

\* group.get("properties", {}), props.get("conjunction", "AND"),
\* props.get("not", False), group.get("children1", [])
GroupPKeys(group) ==
    IF "properties" \in group.keys THEN group.pkeys ELSE {}
GroupConjunction(group) ==
    IF "conjunction" \in GroupPKeys(group) THEN group.conjunction ELSE <<"A", "N", "D">>
GroupNegate(group) ==
    IF "not" \in GroupPKeys(group) THEN group.not ELSE FALSE
GroupChildren(group) ==
    IF "children1" \in group.keys THEN group.children1 ELSE << >>

RECURSIVE process_group(_)
RECURSIVE Conditions(_, _)

\* for child in children: ... , from the accumulator `acc` on
Conditions(children, acc) ==
    IF ~acc.ok \/ Len(children) = 0 THEN acc
    ELSE LET child == Head(children)
             next  == IF "type" \notin child.keys
                      THEN [ok |-> FALSE, conds |-> acc.conds, exc |-> "KeyError"]
                      ELSE IF child.type = "rule"
                      THEN AddCondition(acc, process_rule(child))
                      ELSE IF child.type = "group"
                      THEN AddCondition(acc, process_group(child))
                      ELSE acc
         IN  Conditions(Tail(children), next)

process_group(group) ==
    LET conjunction == GroupConjunction(group)
        negate      == GroupNegate(group)
        children    == GroupChildren(group)
    IN  IF IsEmpty(children) THEN Ok(<<"T", "R", "U", "E">>)
        ELSE LET conditions == Conditions(children, NoConditions)
             IN  IF ~conditions.ok THEN Raise(conditions.exc)
                 ELSE Ok(GroupText(conditions.conds, conjunction, negate))

-----------------------------------------------------------------------------
(* SQLGenerator.__init__, add_param, generate_sql: `self` is the record of *)
(* the instance's fields.                                                   *)

SQLGenerator(up) == [use_params |-> up, params |-> << >>, param_index |-> 0]

Self == [use_params |-> use_params, params |-> params,
         param_index |-> param_index]

\* returns the instance after the call and the placeholder
add_param(self, value) ==
    [self |-> [self EXCEPT !.param_index = @ + 1,
                           !.params = Append(@, value)],
     ret  |-> Ok(<<"$">> \o IntStr(self.param_index + 1))]

ResetParamsMissing(self) == self

\* self.params = []; self.param_index = 0
ResetParams(self) == [self EXCEPT !.params = << >>, !.param_index = 0]

\* the dispatch on query_tree["type"]
Dispatch(query_tree) ==
    IF "type" \notin query_tree.keys THEN Raise("KeyError")
    ELSE IF query_tree.type = "group" THEN process_group(query_tree)
    ELSE IF query_tree.type = "rule" THEN process_rule(query_tree)
    ELSE Raise("ValueError")

\* returns the instance after the call and the outcome
generate_sql(self, query_tree) ==
    [self |-> ResetParams(self), ret |-> Dispatch(query_tree)]

-----------------------------------------------------------------------------
(* main() *)

UsageLine == <<"U", "s", "a", "g", "e", ":", " ", "p", "y", "t", "h", "o", "n", " ", "s", "q", "l", "_", "g", "e", "n", "e", "r", "a", "t", "o", "r", ".", "p", "y", " ", "<", "q", "u", "e", "r", "y", "_", "j", "s", "o", "n", "_", "f", "i", "l", "e", ">">>

\* print(f"WHERE {sql_where}")
WhereLine(sql_where) == <<"W", "H", "E", "R", "E", " ">> \o sql_where

\* print(f"Error generating SQL: {e}", file=sys.stderr)
ErrorLine(e) == [text |-> <<"E", "r", "r", "o", "r", " ", "g", "e", "n", "e", "r", "a", "t", "i", "n", "g", " ", "S", "Q", "L", ":", " ">>, e |-> e]

-----------------------------------------------------------------------------
(* The inputs the model draws from. *)

SeqsUpTo(S, n) == UNION {[1..k -> S] : k \in 0..n}

Chars    == {Quote, "a"}
Strings  == SeqsUpTo(Chars, MaxLen)
Numbers  == {0 - 5, 0, 123}
Objects  == {ObjV(<<"{", "}">>, FALSE), ObjV(<<"{", "'", "k", "'", ":", " ", "0", "}">>, TRUE)}

Scalars ==
    {StrV(s) : s \in Strings} \cup {NumV(n) : n \in Numbers}
    \cup {BoolV(b) : b \in BOOLEAN}

ListItems == {StrV(<<"a">>), StrV(<<Quote>>), NumV(123), BoolV(TRUE)}
Lists     == {ListV(xs) : xs \in SeqsUpTo(ListItems, MaxList)}

Values == Scalars \cup {NullV} \cup Objects \cup Lists

DeclaredTypes == {"string", "number", "boolean", "date", "datetime", "time"}
TypeTags      == DeclaredTypes \cup {"text"}
ValueTypes ==
    {NoType} \cup {TypeTag(t) : t \in TypeTags}
    \cup {TypeList(<<t>>) : t \in TypeTags}
    \cup {TypeList(<< >>), TypeList(<<"string", "number">>)}

\* the 18 rule operators of the operator set
RuleOperators ==
    {"equal", "not_equal", "less", "less_or_equal", "greater",
     "greater_or_equal", "like", "not_like", "starts_with", "ends_with",
     "between", "not_between", "is_null", "is_not_null", "is_empty",
     "is_not_empty", "in", "not_in"}
Operators == RuleOperators \cup {"AND", "OR", "regex"}

AllPKeys == {"field", "operator", "value", "valueType"}

Rules ==
    {RuleNode(AllPKeys, <<"f">>, op, v, vt) :
        op \in Operators, v \in Values, vt \in ValueTypes}
    \cup {RuleNode(AllPKeys \ {k}, <<"f">>, op, NumV(123), NoType) :
            k \in AllPKeys, op \in Operators}
    \cup {Node("rule", {"type"}, {}, << >>, "", NullV, NoType, << >>, FALSE, << >>)}

Call(fn, value, value_type, node, argv1) ==
    [fn |-> fn, value |-> value, value_type |-> value_type, node |-> node,
     argv1 |-> argv1]

FormatCalls ==
    {Call("format_value", v, vt, UntypedNode, FALSE) :
        v \in Values, vt \in ValueTypes}
RuleCalls ==
    {Call("process_rule", NullV, NoType, r, FALSE) : r \in Rules}

(* Query trees. *)
GoodRule == RuleNode(AllPKeys, <<"a">>, "equal", NumV(1), NoType)
LikeRule == RuleNode(AllPKeys, <<"b">>, "like", StrV(<<"a">>), TypeTag("string"))
BadOperatorRule == RuleNode(AllPKeys, <<"c">>, "regex", NumV(1), NoType)
NoFieldRule == RuleNode(AllPKeys \ {"field"}, << >>, "equal", NumV(1), NoType)

Leaves ==
    {GoodRule, LikeRule, BadOperatorRule, NoFieldRule, OtherNode("rule_group"),
     UntypedNode}

\* the "properties" of a group: absent, or with its keys present
GroupProps ==
    {[keys |-> {}, pkeys |-> {}, conjunction |-> << >>, not |-> FALSE]}
    \cup {[keys |-> {"properties"}, pkeys |-> {"conjunction", "not"},
           conjunction |-> c, not |-> b] : c \in {<<"A", "N", "D">>, <<"O", "R">>}, b \in BOOLEAN}
    \cup {[keys |-> {"properties"}, pkeys |-> {"not"}, conjunction |-> << >>,
           not |-> TRUE]}

NestProps ==
    {[keys |-> {}, pkeys |-> {}, conjunction |-> << >>, not |-> FALSE],
     [keys |-> {"properties"}, pkeys |-> {"conjunction", "not"},
      conjunction |-> <<"O", "R">>, not |-> TRUE]}

Group(p, cs) ==
    GroupNode(p.keys \cup {"children1"}, p.pkeys, p.conjunction, p.not, cs)
GroupWithoutChildren(p) ==
    GroupNode(p.keys, p.pkeys, p.conjunction, p.not, << >>)

\* groups of leaves
FlatGroups ==
    {Group(p, cs) : p \in GroupProps, cs \in SeqsUpTo(Leaves, MaxChildren)}
    \cup {GroupWithoutChildren(p) : p \in GroupProps}

\* groups nested d levels above a group of leaves
Wrap(t) ==
    {Group(p, cs) : p \in NestProps,
                    cs \in {<<t>>, <<GoodRule, t>>, <<t, OtherNode("rule_group")>>}}

RECURSIVE Nested(_)
Nested(d) ==
    IF d = 0
    THEN {Group(p, cs) : p \in NestProps,
                         cs \in SeqsUpTo({GoodRule, BadOperatorRule}, 2)}
    ELSE UNION {Wrap(t) : t \in Nested(d - 1)}

Trees ==
    Leaves \cup FlatGroups \cup UNION {Nested(d) : d \in 1..(MaxDepth - 1)}

TreeCalls ==
    {Call("generate_sql", NullV, NoType, t, FALSE) : t \in Trees}
    \cup {Call("process_group", NullV, NoType, t, FALSE) :
            t \in {g \in Trees : g.type = "group"}}
    \cup {Call("main", NullV, NoType, t, TRUE) : t \in Trees}
    \cup {Call("main", NullV, NoType, UntypedNode, FALSE)}

\* trees of the generate_sql calls that precede the observed one
EarlierTrees == {GoodRule, Group(CHOOSE p \in NestProps : p.not, <<BadOperatorRule>>)}

ParamValues == {StrV(<<"a">>)}

-----------------------------------------------------------------------------
(* The state machine. *)

InitInstance ==
    /\ pc = "idle"
    /\ use_params \in BOOLEAN
    /\ params = << >>
    /\ param_index = 0
    /\ ret = NoRet
    /\ ncalls = 0
    /\ entry_index = 0
    /\ stdout = << >>
    /\ stderr = << >>
    /\ exit_status = 0

\* a call of format_value or process_rule is pending
InitPure == call \in FormatCalls \cup RuleCalls /\ InitInstance

\* a call of generate_sql, process_group or main is pending
Init == call \in TreeCalls /\ InitInstance

FormatValue ==
    /\ pc = "idle" /\ call.fn = "format_value"
    /\ ret' = format_value(call.value, call.value_type)
    /\ pc' = "done"
    /\ UNCHANGED <<call, use_params, params, param_index, ncalls, entry_index,
                   stdout, stderr, exit_status>>

ProcessRule ==
    /\ pc = "idle" /\ call.fn = "process_rule"
    /\ ret' = process_rule(call.node)
    /\ pc' = "done"
    /\ UNCHANGED <<call, use_params, params, param_index, ncalls, entry_index,
                   stdout, stderr, exit_status>>

ProcessGroup ==
    /\ pc = "idle" /\ call.fn = "process_group"
    /\ ret' = process_group(call.node)
    /\ pc' = "done"
    /\ UNCHANGED <<call, use_params, params, param_index, ncalls, entry_index,
                   stdout, stderr, exit_status>>

\* add_param on the instance; main()'s generator is local to main
AddParam ==
    /\ pc = "idle" /\ call.fn # "main"
    /\ Len(params) < MaxParams
    /\ \E v \in ParamValues :
          LET out == add_param(Self, v) IN
          /\ params' = out.self.params
          /\ param_index' = out.self.param_index
          /\ ret' = out.ret
    /\ UNCHANGED <<call, pc, use_params, ncalls, entry_index, stdout, stderr,
                   exit_status>>

\* generate_sql on the instance: an earlier call, or the observed one
GenerateSql ==
    /\ pc = "idle" /\ call.fn = "generate_sql"
    /\ \E observed \in BOOLEAN :
       \E t \in IF observed THEN {call.node} ELSE EarlierTrees :
          LET out == generate_sql(Self, t) IN
          /\ observed \/ ncalls < MaxCalls
          /\ params' = out.self.params
          /\ param_index' = out.self.param_index
          /\ ret' = out.ret
          /\ pc' = IF observed THEN "done" ELSE "idle"
    /\ ncalls' = ncalls + 1
    /\ entry_index' = param_index
    /\ UNCHANGED <<call, use_params, stdout, stderr, exit_status>>

Main ==
    /\ pc = "idle" /\ call.fn = "main"
    /\ pc' = "done"
    /\ IF ~call.argv1
       THEN /\ stdout' = Append(stdout, UsageLine)
            /\ exit_status' = 1
            /\ UNCHANGED <<use_params, params, param_index, ret, ncalls,
                           entry_index, stderr>>
       ELSE LET generator == SQLGenerator(FALSE)
                out       == generate_sql(generator, call.node)
            IN  /\ use_params' = out.self.use_params
                /\ params' = out.self.params
                /\ param_index' = out.self.param_index
                /\ ret' = out.ret
                /\ ncalls' = 1
                /\ entry_index' = generator.param_index
                /\ IF out.ret.ok
                   THEN /\ stdout' = Append(stdout, WhereLine(out.ret.text))
                        /\ exit_status' = 0
                        /\ UNCHANGED stderr
                   ELSE /\ stderr' = Append(stderr, ErrorLine(out.ret.exc))
                        /\ exit_status' = 1
                        /\ UNCHANGED stdout
    /\ UNCHANGED call

NextPure == FormatValue \/ ProcessRule

Next == AddParam \/ GenerateSql \/ ProcessGroup \/ Main

SpecPure == InitPure /\ [][NextPure]_vars

Spec == Init /\ [][Next]_vars

-----------------------------------------------------------------------------
(* Properties.  Each is stated on the state reached when the observed call *)
(* has returned or raised.                                                 *)

Returned(fn) == pc = "done" /\ call.fn = fn

\* the declared type of a call: a tag, or a one-element sequence of a tag
DeclaredTag(value_type) ==
    IF value_type.kind = "list" THEN value_type.items[1] ELSE value_type.tag

IsDeclared(value_type) ==
    \/ value_type.kind = "str" /\ value_type.tag \in DeclaredTypes
    \/ /\ value_type.kind = "list"
       /\ Len(value_type.items) = 1
       /\ value_type.items[1] \in DeclaredTypes

BooleanLiteral(b) == IF b THEN <<"T", "R", "U", "E">> ELSE <<"F", "A", "L", "S", "E">>

\* the rendering prescribed for declared type t
Prescribed(t, v) ==
    CASE t = "string"               -> Quoted(EscapeQuotes(PyStr(v)))
      [] t = "number"               -> PyStr(v)
      [] t = "boolean"              -> BooleanLiteral(Truthy(v))
      [] t \in {"date", "datetime"} -> <<"D", "A", "T", "E", " ", "'">> \o PyStr(v) \o <<Quote>>
      [] t = "time"                 -> Quoted(PyStr(v))

\* C1: in format_value a declared type always wins over the native kind of
\* the value: for every scalar value and every declared type, given as a tag
\* or as a one-element sequence, the output is the rendering prescribed for
\* the declared type.
C1_DeclaredTypeWins ==
    (Returned("format_value") /\ call.value \in Scalars
        /\ IsDeclared(call.value_type))
    => ret = Ok(Prescribed(DeclaredTag(call.value_type), call.value))

CompleteRule(rule) ==
    /\ "type" \in rule.keys /\ rule.type = "rule"
    /\ "properties" \in rule.keys
    /\ {"field", "operator", "value"} \subseteq rule.pkeys

RuleType(rule) ==
    IF "valueType" \in rule.pkeys THEN rule.valueType ELSE NoType

\* C2: format_value renders every boolean as TRUE or FALSE, when the declared
\* type is "boolean" and when no type is declared; a rule
\* {field: f, operator: equal, value: true} compiles to "f = TRUE".
C2_BooleanLiteral ==
    /\ (Returned("format_value") /\ call.value.kind = "bool"
          /\ (call.value_type = NoType
              \/ IsTag(EffectiveType(call.value_type), "boolean")))
       => ret = Ok(BooleanLiteral(call.value.b))
    /\ (Returned("process_rule") /\ CompleteRule(call.node)
          /\ call.node.operator = "equal" /\ call.node.value.kind = "bool"
          /\ RuleType(call.node) = NoType)
       => ret = Ok(call.node.field \o <<" ", "=", " ">> \o BooleanLiteral(call.node.value.b))

\* C3: process_rule fails, and returns no SQL, for every rule whose operator
\* is not one of the 18 rule operators, whatever its field and value are.
C3_UnsupportedOperatorFails ==
    (Returned("process_rule") /\ "properties" \in call.node.keys
        /\ "operator" \in call.node.pkeys
        /\ call.node.operator \notin RuleOperators)
    => ~ret.ok

\* C4: between and not_between with fewer than two values (a scalar, an empty
\* sequence, a one-element sequence) make process_rule raise.
C4_BetweenArityFails ==
    (Returned("process_rule") /\ CompleteRule(call.node)
        /\ call.node.operator \in {"between", "not_between"}
        /\ (call.node.value.kind # "list" \/ Len(call.node.value.items) < 2))
    => ~ret.ok

\* the scalar a LIKE-pattern rule is about: the value, or the first element of
\* a sequence
PatternValue(value) ==
    IF value.kind = "list" THEN value.items[1] ELSE value

HasPatternValue(value) ==
    \/ value \in Scalars
    \/ value.kind = "list" /\ Len(value.items) >= 1 /\ value.items[1] \in Scalars

\* C6: starts_with (ends_with) on a scalar v, bare or first of a sequence,
\* gives "<field> LIKE '<e>%'" ("<field> LIKE '%<e>'") where e is the whole
\* text of v with its single quotes doubled.
C6_PatternKeepsWholeValue ==
    (Returned("process_rule") /\ CompleteRule(call.node)
        /\ call.node.operator \in {"starts_with", "ends_with"}
        /\ HasPatternValue(call.node.value)
        /\ (RuleType(call.node) = NoType \/ IsDeclared(RuleType(call.node))))
    => LET e == EscapeQuotes(PyStr(PatternValue(call.node.value))) IN
       ret = Ok(call.node.field \o <<" ", "L", "I", "K", "E", " ", "'">>
                \o (IF call.node.operator = "starts_with"
                    THEN e \o <<"%">> ELSE <<"%">> \o e)
                \o <<Quote>>)

RECURSIVE CountQuotes(_)
CountQuotes(s) ==
    IF Len(s) = 0 THEN 0
    ELSE (IF Head(s) = Quote THEN 1 ELSE 0) + CountQuotes(Tail(s))

RECURSIVE Unescape(_)
\* reading a SQL string body: each doubled quote stands for one quote
Unescape(s) ==
    IF Len(s) = 0 THEN << >>
    ELSE IF Len(s) >= 2 /\ s[1] = Quote /\ s[2] = Quote
    THEN <<Quote>> \o Unescape(SubSeq(s, 3, Len(s)))
    ELSE <<Head(s)>> \o Unescape(Tail(s))

\* C7: for a string s with n single quotes, format_value gives a literal with
\* one leading and one trailing quote whose interior holds exactly 2n quotes,
\* and undoing the escaping of the interior gives s back.
C7_EscapingRoundTrip ==
    (Returned("format_value") /\ call.value.kind = "str")
    => /\ ret.ok
       /\ Len(ret.text) >= 2
       /\ Head(ret.text) = Quote
       /\ ret.text[Len(ret.text)] = Quote
       /\ CountQuotes(Slice1(ret.text)) = 2 * CountQuotes(call.value.s)
       /\ Unescape(Slice1(ret.text)) = call.value.s

C7_Witness ==
    /\ Returned("format_value") /\ call.value.kind = "str"
    /\ CountQuotes(call.value.s) >= 2
    /\ call.value_type = NoType
    /\ ret.ok

IsGroup(node) == "type" \in node.keys /\ node.type = "group"
IsRule(node)  == "type" \in node.keys /\ node.type = "rule"

\* the texts a group's children compile to, in order, leaving out the children
\* that are neither rules nor groups
RECURSIVE ChildTexts(_)
ChildTexts(children) ==
    IF Len(children) = 0 THEN << >>
    ELSE LET child == Head(children) IN
         (IF IsRule(child) THEN <<process_rule(child).text>>
          ELSE IF IsGroup(child) THEN <<process_group(child).text>>
          ELSE << >>)
         \o ChildTexts(Tail(children))

JoinedChildren(group) ==
    Join(<<" ">> \o GroupConjunction(group) \o <<" ">>,
         ChildTexts(GroupChildren(group)))

GroupReturned ==
    /\ pc = "done" /\ call.fn \in {"process_group", "generate_sql"}
    /\ IsGroup(call.node) /\ ret.ok
    /\ Len(GroupChildren(call.node)) >= 1

\* C5 as stated: a group with one child is not wrapped, a group with two or
\* more children of any type is wrapped in one pair of parentheses, before NOT.
C5_ParenthesesByChildren ==
    GroupReturned =>
       LET joined == JoinedChildren(call.node)
           body   == IF Len(GroupChildren(call.node)) >= 2
                     THEN <<"(">> \o joined \o <<")">> ELSE joined
       IN  ret.text = (IF GroupNegate(call.node) THEN <<"N", "O", "T", " ">> ELSE << >>) \o body

\* C5 amended: the parentheses depend on the number of compiled children
\* (those of type rule or group): with exactly one the output is not wrapped
\* by the group, with two or more it is wrapped in exactly one pair of
\* parentheses, before the optional NOT prefix.
C5_ParenthesesByConditions ==
    GroupReturned =>
       LET joined == JoinedChildren(call.node)
           body   == IF Len(ChildTexts(GroupChildren(call.node))) >= 2
                     THEN <<"(">> \o joined \o <<")">> ELSE joined
       IN  ret.text = (IF GroupNegate(call.node) THEN <<"N", "O", "T", " ">> ELSE << >>) \o body

C5_Witness ==
    /\ GroupReturned
    /\ Len(GroupChildren(call.node)) >= 2
    /\ Len(ChildTexts(GroupChildren(call.node))) = 1
    /\ GroupNegate(call.node)

\* a rule whose compilation raises lies in the tree, at any depth the
\* traversal reaches
RECURSIVE RaisesWithin(_)
RaisesWithin(node) ==
    IF IsRule(node) THEN ~process_rule(node).ok
    ELSE IF IsGroup(node)
    THEN \E i \in 1..Len(GroupChildren(node)) :
            RaisesWithin(GroupChildren(node)[i])
    ELSE FALSE

UnknownTop(node) == "type" \in node.keys /\ node.type \notin {"group", "rule"}

\* C8: compilation is all-or-nothing: when compiling a rule at any depth
\* raises, or the top-level type is neither group nor rule, generate_sql
\* raises, and main prints no WHERE line and exits with a non-zero status.
C8_AllOrNothing ==
    (pc = "done" /\ call.fn \in {"generate_sql", "main"}
        /\ (call.fn = "main" => call.argv1)
        /\ (RaisesWithin(call.node) \/ UnknownTop(call.node)))
    => /\ ~ret.ok
       /\ call.fn = "main" => (stdout = << >> /\ exit_status # 0)

C8_Witness ==
    /\ Returned("main") /\ call.argv1
    /\ IsGroup(call.node)
    /\ \E i \in 1..Len(GroupChildren(call.node)) :
          LET child == GroupChildren(call.node)[i] IN
          /\ IsGroup(child) /\ RaisesWithin(child)
          /\ i > 1
    /\ ~ret.ok /\ Len(stderr) = 1

EmptyGroup(node) == IsGroup(node) /\ Len(GroupChildren(node)) = 0

\* C9: a group whose children are empty or absent compiles to exactly TRUE,
\* whatever its conjunction and not flag, at the top level and as a nested
\* child (a group of such children compiles to their TRUEs, joined).
C9_EmptyGroupIsTrue ==
    (pc = "done" /\ call.fn \in {"generate_sql", "process_group"})
    => /\ EmptyGroup(call.node) => ret = Ok(<<"T", "R", "U", "E">>)
       /\ IsGroup(call.node) =>
             LET children == GroupChildren(call.node) IN
             /\ \A i \in 1..Len(children) :
                   EmptyGroup(children[i]) => process_group(children[i]) = Ok(<<"T", "R", "U", "E">>)
             /\ (Len(children) = 1 /\ EmptyGroup(children[1]))
                => ret = Ok((IF GroupNegate(call.node) THEN <<"N", "O", "T", " ">> ELSE << >>)
                            \o <<"T", "R", "U", "E">>)

C9_Witness ==
    /\ Returned("generate_sql")
    /\ EmptyGroup(call.node)
    /\ GroupNegate(call.node)
    /\ GroupConjunction(call.node) = <<"O", "R">>
    /\ ret.ok

\* C10: calls are independent: after any earlier add_param and generate_sql
\* calls on the instance, generate_sql(t) returns or raises what it does on a
\* fresh instance, and leaves params empty and param_index 0, as a fresh
\* instance has them.
C10_CallsIndependent ==
    Returned("generate_sql")
    => LET fresh == generate_sql(SQLGenerator(use_params), call.node) IN
       /\ params = << >>
       /\ param_index = 0
       /\ Self = fresh.self
       /\ ret = fresh.ret

C10_Witness ==
    /\ Returned("generate_sql")
    /\ ncalls >= 2
    /\ entry_index > 0
    /\ params = << >>

=============================================================================
